---- MODULE Spec2Model ----
(***************************************************************************)
(* Model of pyWeight_problem.py: the WeightProblem design-variable         *)
(* registry (components, fuelcases, currentDVs), the FuelCase objects with *)
(* their DVs / DVNames maps, and the optimizer interface (addCon).         *)
(*                                                                         *)
(* Reals are kept in tenths (fixed point): 0.9 is 9, 1.0 is 10.            *)
(* Python None is the empty tuple << >>, a given optional value v is <<v>>.*)
(* A Python dict is a TLA+ function whose DOMAIN is the set of its keys.   *)
(***************************************************************************)
EXTENDS Integers, Sequences, FiniteSets, TLC

VARIABLES
    cases,       \* heap of FuelCase objects: object id -> its attributes
    comps,       \* heap of component objects: object id -> its attributes
    components,  \* WeightProblem.components: component name -> object id
    fuelcases,   \* WeightProblem.fuelcases: sequence of FuelCase object ids
    currentDVs,  \* WeightProblem.currentDVs: fully-qualified name -> value
    optProb,     \* the optimizer problem: the addCon and addVar calls received
    calls,       \* how many calls of each bounded operation were made
    last         \* the last call made: operation, arguments, raised or not

vars == <<cases, comps, components, fuelcases, currentDVs, optProb, calls, last>>

-----------------------------------------------------------------------------
(* Bounds of the model. *)

MaxAddDV == 2          \* FuelCase.addDV calls in one behaviour
MaxFuelCases == 2      \* length of WeightProblem.fuelcases
MaxSetCalls == 1       \* WeightProblem.setDesignVars calls in one behaviour
MaxAddComps == 2       \* WeightProblem.addComponents calls in one behaviour
MaxVarCalls == 1        \* WeightProblem.addVariablesPyOpt calls
MaxConCalls == 1       \* WeightProblem.addConstraintsPyOpt calls

-----------------------------------------------------------------------------
(* Values. *)

None == << >>
Some(v) == <<v>>
Get(opt) == opt[1]

One == 10                    \* 1.0 in tenths
DefaultFuelFraction == 9     \* fuelFraction=.9
DefaultReserveFraction == 1  \* reserveFraction=.1
DefaultScale == 10           \* scale=1.0
DefaultOffset == 0           \* offset=0.0

EmptyDict == [k \in {} |-> 0]

\* d[k] = v on a dict
Put(d, k, v) == [j \in (DOMAIN d) \cup {k} |-> IF j = k THEN v ELSE d[j]]

\* WeightProblem.name (self.name=name)
ProblemName == "wp"

\* WeightProblem.units (self.units = units.lower())
ProblemUnits == "si"

\* self.name+'_'+key
FQ(dvName) == ProblemName \o "_" \o dvName

-----------------------------------------------------------------------------
(* FuelCase *)

CaseIds == {"case1", "case2"}

\* FuelCase.possibleDVs
possibleDVs == {"fuelFraction", "reserveFraction"}

\* FuelCase.__init__
FuelCaseInit(name, fuelFraction, reserveFraction) ==
    [name |-> name,
     fuelFraction |-> fuelFraction,
     reserveFraction |-> reserveFraction,
     DVs |-> EmptyDict,
     DVNames |-> EmptyDict]

\* fuelCaseDV.__init__
fuelCaseDV(key, value, lower, upper, scale, offset, addToPyOpt) ==
    [key |-> key, value |-> value, lower |-> lower, upper |-> upper,
     scale |-> scale, offset |-> offset, addToPyOpt |-> addToPyOpt]

\* FuelCase.addDV, lines 466-472: the local name of the DV
AddDVName(case, key, name, axis) ==
    LET base == IF name = None THEN (case.name \o "_") \o key ELSE Get(name)
    IN  IF axis # None THEN (base \o "_") \o Get(axis) ELSE base

\* FuelCase.addDV, lines 474-475: the initial value of the DV
AddDVValue(case, key, value) ==
    IF value = None THEN case[key] ELSE Get(value)

\* FuelCase.addDV, lines 477-478 (the key was accepted)
FuelCaseAddDV(case, key, value, lower, upper, scale, name, offset, axis, addToPyOpt) ==
    LET dvName == AddDVName(case, key, name, axis)
        dv == fuelCaseDV(key, AddDVValue(case, key, value), lower, upper,
                         scale, offset, addToPyOpt)
    IN  [case EXCEPT !.DVs = Put(case.DVs, dvName, dv),
                     !.DVNames = Put(case.DVNames, key, dvName)]

\* FuelCase.addDV, line 462: does the call raise Error
AddDVRaises(key) == key \notin possibleDVs

\* FuelCase.addDV with line 478 moved before the test of line 462: the
\* name is entered for the key, then the key is tested
addDVTestsLast(case, key, value, lower, upper, scale, name, offset, axis, addToPyOpt) ==
    IF AddDVRaises(key)
    THEN [case |-> [case EXCEPT !.DVNames = Put(@, key, AddDVName(case, key, name, axis))],
          err |-> TRUE]
    ELSE [case |-> FuelCaseAddDV(case, key, value, lower, upper, scale,
                                 name, offset, axis, addToPyOpt),
          err |-> FALSE]

\* FuelCase.addDV: the case after the call, and whether the call raised
addDV(case, key, value, lower, upper, scale, name, offset, axis, addToPyOpt) ==
    IF AddDVRaises(key)
    THEN [case |-> case, err |-> TRUE]
    ELSE [case |-> FuelCaseAddDV(case, key, value, lower, upper, scale,
                                 name, offset, axis, addToPyOpt),
          err |-> FALSE]

RECURSIVE FuelCaseSetLoop(_, _, _)
\* FuelCase.setDesignVars, lines 492-496: the loop over the keys of DVNames
\* still to visit
FuelCaseSetLoop(case, keys, x) ==
    IF keys = {} THEN case
    ELSE LET key == CHOOSE k \in keys : TRUE
             dvName == case.DVNames[key]
             next == IF dvName \in DOMAIN x
                     THEN [case EXCEPT
                             ![key] = x[dvName] + case.DVs[dvName].offset,
                             !.DVs[dvName].value = x[dvName]]
                     ELSE case
         IN  FuelCaseSetLoop(next, keys \ {key}, x)

\* FuelCase.setDesignVars without the test "if dvName in x": every registered
\* key takes the value passed
FuelCaseSetDesignVarsNoTest(case, x) ==
    LET v == x[CHOOSE n \in DOMAIN x : TRUE]
    IN  FuelCaseSetLoop(case, DOMAIN case.DVNames,
                        [n \in {case.DVNames[k] : k \in DOMAIN case.DVNames} |-> v])

\* FuelCase.setDesignVars
FuelCaseSetDesignVars(case, x) == FuelCaseSetLoop(case, DOMAIN case.DVNames, x)

\* str.lower() on the keys a FuelCase can hold
Lower(key) ==
    CASE key = "fuelFraction" -> "fuelfraction"
      [] key = "reserveFraction" -> "reservefraction"
      [] OTHER -> key

\* FuelCase.addLinearConstraint, lines 502-509
fuelDV(case) == \E key \in DOMAIN case.DVNames : Lower(key) = "fuelfraction"

\* reserveDV counting only a DV that is added to the optimizer
reserveDVVisible(case) ==
    \E key \in DOMAIN case.DVNames :
        Lower(key) = "reservefraction" /\ case.DVs[case.DVNames[key]].addToPyOpt

reserveDV(case) == \E key \in DOMAIN case.DVNames : Lower(key) = "reservefraction"

\* FuelCase.addLinearConstraint, line 511
conName(case, prefix) == ((prefix \o "_") \o case.name) \o "_fuelcase"

\* FuelCase.addLinearConstraint, line 512
var1Name(case, prefix) == ((prefix \o "_") \o case.name) \o "_fuelFraction"

\* FuelCase.addLinearConstraint, line 513
var2Name(case, prefix) == ((prefix \o "_") \o case.name) \o "_reserveFraction"

\* optProb.addCon(name, lower, upper, scale, linear, wrt, jac): the call as
\* the optimizer receives it; jac holds the 1x1 block [[c]] of each variable
addCon(name, lower, upper, scale, linear, wrt, jac) ==
    [name |-> name, lower |-> lower, upper |-> upper, scale |-> scale,
     linear |-> linear, wrt |-> wrt, jac |-> jac]

\* FuelCase.addLinearConstraint, line 515 with the bound of line 517
conBothBoundOfReserve(case, prefix) ==
    LET v1 == var1Name(case, prefix)
        v2 == var2Name(case, prefix)
    IN  addCon(conName(case, prefix), 0, One - case.fuelFraction, One, TRUE,
               <<v1, v2>>, [v \in {v1, v2} |-> <<<<1>>>>])

\* FuelCase.addLinearConstraint, line 515: both fractions are DVs
conBoth(case, prefix) ==
    LET v1 == var1Name(case, prefix)
        v2 == var2Name(case, prefix)
    IN  addCon(conName(case, prefix), 0, One, One, TRUE,
               <<v1, v2>>, [v \in {v1, v2} |-> <<<<1>>>>])

\* FuelCase.addLinearConstraint, line 517 with the fraction of line 519
conReserveOwnFraction(case, prefix) ==
    LET v2 == var2Name(case, prefix)
    IN  addCon(conName(case, prefix), 0, One - case.reserveFraction, One, TRUE,
               <<v2>>, [v \in {v2} |-> <<<<1>>>>])

\* FuelCase.addLinearConstraint, line 517: only reserveFraction is a DV
conReserve(case, prefix) ==
    LET v2 == var2Name(case, prefix)
    IN  addCon(conName(case, prefix), 0, One - case.fuelFraction, One, TRUE,
               <<v2>>, [v \in {v2} |-> <<<<1>>>>])

\* FuelCase.addLinearConstraint, line 519: only fuelFraction is a DV
conFuel(case, prefix) ==
    LET v1 == var1Name(case, prefix)
    IN  addCon(conName(case, prefix), 0, One - case.reserveFraction, One, TRUE,
               <<v1>>, [v \in {v1} |-> <<<<1>>>>])

\* FuelCase.addLinearConstraint: the addCon calls it makes, in order
addLinearConstraint(case, prefix) ==
    IF reserveDV(case) /\ fuelDV(case) THEN << conBoth(case, prefix) >>
    ELSE IF reserveDV(case) THEN << conReserve(case, prefix) >>
    ELSE IF fuelDV(case) THEN << conFuel(case, prefix) >>
    ELSE << >>

-----------------------------------------------------------------------------
(* Components: objects of another package, seen through name, compType,    *)
(* DVs, setUnitSystem and setDesignVars.                                   *)

CompIds == {"compA", "compA2", "compB", "compC"}

\* a DV of a component: the attributes WeightProblem reads
CompDV(value, addToPyOpt) ==
    [value |-> value, lower |-> None, upper |-> None, scale |-> DefaultScale,
     addToPyOpt |-> addToPyOpt]

\* a component object as constructed by its own package
CompInit(id) ==
    CASE id = "compA"  -> [name |-> "A", compType |-> "wing", units |-> None,
                           DVs |-> [k \in {"A_span"} |-> CompDV(3, TRUE)]]
      [] id = "compA2" -> [name |-> "A", compType |-> "fuel", units |-> None,
                           DVs |-> [k \in {"A_area"} |-> CompDV(4, TRUE)]]
      [] id = "compB"  -> [name |-> "B", compType |-> "wing", units |-> None,
                           DVs |-> [k \in {"B_chord"} |-> CompDV(7, FALSE)]]
      [] id = "compC"  -> [name |-> "C", compType |-> "fuel", units |-> None,
                           DVs |-> EmptyDict]

\* comp.setUnitSystem(units)
CompSetUnitSystem(comp, units) == [comp EXCEPT !.units = Some(units)]

\* comp.setDesignVars(x): the component takes the values of the DVs it owns
CompSetDesignVars(comp, x) ==
    [comp EXCEPT !.DVs = [k \in DOMAIN comp.DVs |->
        IF k \in DOMAIN x THEN [comp.DVs[k] EXCEPT !.value = x[k]]
        ELSE comp.DVs[k]]]

-----------------------------------------------------------------------------
(* WeightProblem *)

\* The argument of addComponents / addFuelCases as Python sees it:
\* a list of objects, one object passed bare, a tuple, None, or an instance
\* of object itself (object()), which is no component and no fuel case.
ListArg(items) == [kind |-> "list", items |-> items]
SingleArg(item) == [kind |-> "single", items |-> <<item>>]
TupleArg(items) == [kind |-> "tuple", items |-> items]
NoneArg == [kind |-> "none", items |-> << >>]

\* an instance of object: it has no name, no DVs and no methods of its own
BareObject == "object()"
ObjectArg == [kind |-> "object", items |-> <<BareObject>>]

\* lines 90-95 and 215-220: type(arg) == list passes; type(arg) == object
\* holds of an instance of object only, never of a component or a fuel case
\* (their type is their own class); every other argument raises Error
RegisterRaises(arg) == arg.kind \notin {"list", "object"}

RECURSIVE addComponentsLoopNewCache(_, _, _)
\* addComponentsLoop with the cache rebuilt for each component added: the
\* entries of the others are dropped
addComponentsLoopNewCache(st, items, i) ==
    IF i > Len(items) THEN st
    ELSE IF items[i] = BareObject THEN [st EXCEPT !.err = TRUE]
    ELSE LET id == items[i]
             comp == CompSetUnitSystem(st.comps[id], ProblemUnits)
             next == [comps |-> [st.comps EXCEPT ![id] = comp],
                      components |-> Put(st.components, comp.name, id),
                      err |-> FALSE,
                      currentDVs |-> [k \in {FQ(n) : n \in DOMAIN comp.DVs} |->
                          comp.DVs[CHOOSE n \in DOMAIN comp.DVs : FQ(n) = k].value]]
         IN  addComponentsLoopNewCache(next, items, i + 1)

RECURSIVE addComponentsLoop(_, _, _)
\* WeightProblem.addComponents, lines 98-105, from the i-th item on;
\* st holds comps, components, currentDVs and err (an exception left the
\* loop); an item without setUnitSystem raises AttributeError at line 99
addComponentsLoop(st, items, i) ==
    IF i > Len(items) THEN st
    ELSE IF items[i] = BareObject THEN [st EXCEPT !.err = TRUE]
    ELSE LET id == items[i]
             comp == CompSetUnitSystem(st.comps[id], ProblemUnits)
             names == DOMAIN comp.DVs
             next == [comps |-> [st.comps EXCEPT ![id] = comp],
                      components |-> Put(st.components, comp.name, id),
                      err |-> FALSE,
                      currentDVs |->
                         [k \in (DOMAIN st.currentDVs) \cup {FQ(n) : n \in names} |->
                            IF \E n \in names : FQ(n) = k
                            THEN comp.DVs[CHOOSE n \in names : FQ(n) = k].value
                            ELSE st.currentDVs[k]]]
         IN  addComponentsLoop(next, items, i + 1)

RECURSIVE addFuelCasesLoop(_, _, _)
\* WeightProblem.addFuelCases, lines 223-229, from the i-th item on;
\* st holds cases (read only), fuelcases, currentDVs and err (an exception
\* left the loop); an item without DVs is appended at line 224 and raises
\* AttributeError at line 226
addFuelCasesLoop(st, items, i) ==
    IF i > Len(items) THEN st
    ELSE IF items[i] = BareObject
         THEN [st EXCEPT !.fuelcases = Append(@, items[i]), !.err = TRUE]
    ELSE LET id == items[i]
             case == st.cases[id]
             names == DOMAIN case.DVs
             next == [cases |-> st.cases,
                      fuelcases |-> Append(st.fuelcases, id),
                      err |-> FALSE,
                      currentDVs |->
                         [k \in (DOMAIN st.currentDVs) \cup {FQ(n) : n \in names} |->
                            IF \E n \in names : FQ(n) = k
                            THEN case.DVs[CHOOSE n \in names : FQ(n) = k].value
                            ELSE st.currentDVs[k]]]
         IN  addFuelCasesLoop(next, items, i + 1)

RECURSIVE setCompDVLoop(_, _, _, _)
\* WeightProblem.setDesignVars, lines 129-136: the DVs of one component
\* still to visit; st holds comps, cases and currentDVs
setCompDVLoop(st, id, keys, x) ==
    IF keys = {} THEN st
    ELSE LET key == CHOOSE k \in keys : TRUE
             dvName == FQ(key)
             next == IF dvName \in DOMAIN x
                     THEN [st EXCEPT
                             !.comps[id] = CompSetDesignVars(@, [k \in {key} |-> x[dvName]]),
                             !.currentDVs = Put(@, dvName, x[dvName])]
                     ELSE st
         IN  setCompDVLoop(next, id, keys \ {key}, x)

RECURSIVE setCompsLoop(_, _, _, _)
\* WeightProblem.setDesignVars, lines 127-136: the component keys still to visit
setCompsLoop(st, comps0, compKeys, x) ==
    IF compKeys = {} THEN st
    ELSE LET compKey == CHOOSE k \in compKeys : TRUE
             id == comps0[compKey]
         IN  setCompsLoop(setCompDVLoop(st, id, DOMAIN st.comps[id].DVs, x),
                          comps0, compKeys \ {compKey}, x)

RECURSIVE setCaseDVLoop(_, _, _, _)
\* WeightProblem.setDesignVars, lines 139-146: the DVs of one fuel case
\* still to visit
setCaseDVLoop(st, id, keys, x) ==
    IF keys = {} THEN st
    ELSE LET key == CHOOSE k \in keys : TRUE
             dvName == FQ(key)
             next == IF dvName \in DOMAIN x
                     THEN [st EXCEPT
                             !.cases[id] = FuelCaseSetDesignVars(@, [k \in {key} |-> x[dvName]]),
                             !.currentDVs = Put(@, dvName, x[dvName])]
                     ELSE st
         IN  setCaseDVLoop(next, id, keys \ {key}, x)

RECURSIVE setCasesLoop(_, _, _, _)
\* WeightProblem.setDesignVars, lines 138-146, from the i-th fuel case on
setCasesLoop(st, fcs, i, x) ==
    IF i > Len(fcs) THEN st
    ELSE setCasesLoop(setCaseDVLoop(st, fcs[i], DOMAIN st.cases[fcs[i]].DVs, x),
                      fcs, i + 1, x)

\* WeightProblem.setDesignVars
setDesignVars(st, comps0, fcs, x) ==
    setCasesLoop(setCompsLoop(st, comps0, DOMAIN comps0, x), fcs, 1, x)

\* addConstraintsPyOpt leaving the loop after the first fuel case
addConstraintsFirstOnly(hp, fcs, i) ==
    IF i > Len(fcs) THEN << >> ELSE addLinearConstraint(hp[fcs[i]], ProblemName)

RECURSIVE addConstraintsLoop(_, _, _)
\* WeightProblem.addConstraintsPyOpt, lines 206-207, from the i-th case on:
\* the addCon calls made, in order
addConstraintsLoop(hp, fcs, i) ==
    IF i > Len(fcs) THEN << >>
    ELSE addLinearConstraint(hp[fcs[i]], ProblemName) \o addConstraintsLoop(hp, fcs, i + 1)

\* the orders in which a dict with the keys S may be iterated
Orders(S) ==
    {o \in [1..Cardinality(S) -> S] : \A i, j \in DOMAIN o : i # j => o[i] # o[j]}

\* one step of a loop over the DVs of an object: the owner and the local name
Visit(kind, id, key) == [kind |-> kind, id |-> id, key |-> key]

RECURSIVE compVisits(_, _, _)
\* lines 160-163 and 184-186: the loop over components.keys(), from the
\* keys still to visit, and over the DVs of each component; every order the
\* dicts may be iterated in
compVisits(hp, comps0, compKeys) ==
    IF compKeys = {} THEN {<< >>}
    ELSE UNION {
        {[i \in DOMAIN o |-> Visit("comp", comps0[compKey], o[i])] \o rest :
            o \in Orders(DOMAIN hp[comps0[compKey]].DVs),
            rest \in compVisits(hp, comps0, compKeys \ {compKey})} :
        compKey \in compKeys}

RECURSIVE caseVisits(_, _, _)
\* lines 169-170 and 189-190: the loop over fuelcases, from the i-th entry on,
\* and over the DVs of each case
caseVisits(hp, fcs, i) ==
    IF i > Len(fcs) THEN {<< >>}
    ELSE {[j \in DOMAIN o |-> Visit("case", fcs[i], o[j])] \o rest :
            o \in Orders(DOMAIN hp[fcs[i]].DVs),
            rest \in caseVisits(hp, fcs, i + 1)}

\* getVarNames with the fuel cases visited first
getVarNamesCasesFirst(hpComps, hpCases, comps0, fcs) ==
    {[i \in DOMAIN v |-> FQ(v[i].key)] :
        v \in {b \o a : a \in compVisits(hpComps, comps0, DOMAIN comps0),
                        b \in caseVisits(hpCases, fcs, 1)}}

\* WeightProblem.getVarNames: the lists it may return
getVarNames(hpComps, hpCases, comps0, fcs) ==
    {[i \in DOMAIN v |-> FQ(v[i].key)] :
        v \in {a \o b : a \in compVisits(hpComps, comps0, DOMAIN comps0),
                        b \in caseVisits(hpCases, fcs, 1)}}

\* optProb.addVar(name, 'c', value=, lower=, upper=, scale=): the call as the
\* optimizer receives it
addVar(name, type, value, lower, upper, scale) ==
    [name |-> name, type |-> type, value |-> value, lower |-> lower,
     upper |-> upper, scale |-> scale]

RECURSIVE addVarCalls(_, _, _, _)
\* lines 163-167 and 171-176: the addVar calls made over the visits from the
\* i-th on
addVarCalls(hpComps, hpCases, v, i) ==
    IF i > Len(v) THEN << >>
    ELSE LET dv == IF v[i].kind = "comp" THEN hpComps[v[i].id].DVs[v[i].key]
                   ELSE hpCases[v[i].id].DVs[v[i].key]
             call == addVar(FQ(v[i].key), "c", dv.value, dv.lower, dv.upper, dv.scale)
         IN  (IF dv.addToPyOpt THEN <<call>> ELSE << >>)
                 \o addVarCalls(hpComps, hpCases, v, i + 1)

\* WeightProblem.addVariablesPyOpt: the sequences of addVar calls it may make
addVariablesPyOpt(hpComps, hpCases, comps0, fcs) ==
    {addVarCalls(hpComps, hpCases, a \o b, 1) :
        a \in compVisits(hpComps, comps0, DOMAIN comps0),
        b \in caseVisits(hpCases, fcs, 1)}

\* A filter argument of _getComponentKeys: None, a bare string or a list
NoFilter == [kind |-> "none", val |-> << >>]
StrFilter(str) == [kind |-> "str", val |-> str]
ListFilter(list) == [kind |-> "list", val |-> list]

\* lines 253-254, 263-264, 270-271, 277-278: if type(f) == str: f = [f]
AsList(filter) == IF filter.kind = "str" THEN <<filter.val>> ELSE filter.val

\* v in list
InList(v, list) == \E i \in 1..Len(list) : list[i] = v

\* set(list)
ToSet(list) == {list[i] : i \in 1..Len(list)}

\* _getComponentKeys, lines 251-259
byIncludeType(weightKeys, comps0, hp, includeType) ==
    IF includeType.kind # "none"
    THEN {key \in weightKeys : InList(hp[comps0[key]].compType, AsList(includeType))}
    ELSE weightKeys

\* _getComponentKeys, lines 261-266
byInclude(weightKeys, include) ==
    IF include.kind # "none"
    THEN weightKeys \cap ToSet(AsList(include))
    ELSE weightKeys

\* lines 268-273 without lines 270-271: a bare string is not made a list, and
\* set(exclude) is then the set of its characters, none of them a key here
byExcludeListOnly(weightKeys, exclude) ==
    IF exclude.kind = "list"
    THEN weightKeys \ ToSet(exclude.val)
    ELSE weightKeys

\* _getComponentKeys, lines 268-273
byExclude(weightKeys, exclude) ==
    IF exclude.kind # "none"
    THEN weightKeys \ ToSet(AsList(exclude))
    ELSE weightKeys

\* _getComponentKeys, lines 275-283
byExcludeType(weightKeys, comps0, hp, excludeType) ==
    IF excludeType.kind # "none"
    THEN weightKeys \ {key \in weightKeys :
                          InList(hp[comps0[key]].compType, AsList(excludeType))}
    ELSE weightKeys

\* WeightProblem._getComponentKeys
getComponentKeys(comps0, hp, include, exclude, includeType, excludeType) ==
    byExcludeType(
        byExclude(
            byInclude(
                byIncludeType(DOMAIN comps0, comps0, hp, includeType),
                include),
            exclude),
        comps0, hp, excludeType)

-----------------------------------------------------------------------------
(* The state after construction, and the calls. *)

Called(op, arg, err, ret) == [op |-> op, arg |-> arg, err |-> err, ret |-> ret]

NoCalls == [addDV |-> 0, setDesignVars |-> 0, addComponents |-> 0,
            addConstraintsPyOpt |-> 0, addVariablesPyOpt |-> 0]

\* WeightProblem.__init__, and the FuelCase and component objects the caller
\* constructed; names and fracs give each FuelCase its constructor arguments
InitWith(names, fracs) ==
    /\ cases = [id \in CaseIds |->
                   FuelCaseInit(names[id], fracs[id][1], fracs[id][2])]
    /\ comps = [id \in CompIds |-> CompInit(id)]
    /\ components = EmptyDict
    /\ fuelcases = << >>
    /\ currentDVs = EmptyDict
    /\ optProb = [cons |-> << >>, vars |-> << >>]
    /\ calls = NoCalls
    /\ last = Called("init", None, FALSE, None)

\* FuelCase.addDV(key, value, name=name, offset=offset, axis=axis,
\* addToPyOpt=addToPyOpt) on the case object id; lower, upper and scale are
\* left at their defaults
AddDV(id, key, value, name, offset, axis, addToPyOpt) ==
    /\ calls.addDV < MaxAddDV
    /\ calls' = [calls EXCEPT !.addDV = @ + 1]
    /\ LET end == addDV(cases[id], key, value, None, None, DefaultScale,
                        name, offset, axis, addToPyOpt)
       IN  /\ cases' = [cases EXCEPT ![id] = end.case]
           /\ last' = Called("addDV",
                             [id |-> id, key |-> key, value |-> value, name |-> name,
                              offset |-> offset, axis |-> axis, addToPyOpt |-> addToPyOpt],
                             end.err, None)
    /\ UNCHANGED <<comps, components, fuelcases, currentDVs, optProb>>

\* WeightProblem.addFuelCases(arg)
AddFuelCases(arg) ==
    /\ Len(fuelcases) + Len(arg.items) <= MaxFuelCases
    /\ LET st == [cases |-> cases, fuelcases |-> fuelcases,
                  currentDVs |-> currentDVs, err |-> FALSE]
           end == IF RegisterRaises(arg) THEN st
                  ELSE addFuelCasesLoop(st, arg.items, 1)
       IN  /\ fuelcases' = end.fuelcases
           /\ currentDVs' = end.currentDVs
           /\ last' = Called("addFuelCases", arg, RegisterRaises(arg) \/ end.err, None)
    /\ UNCHANGED <<cases, comps, components, optProb, calls>>

\* WeightProblem.addComponents(arg)
AddComponents(arg) ==
    /\ calls.addComponents < MaxAddComps
    /\ calls' = [calls EXCEPT !.addComponents = @ + 1]
    /\ LET st == [comps |-> comps, components |-> components,
                  currentDVs |-> currentDVs, err |-> FALSE]
           end == IF RegisterRaises(arg) THEN st
                  ELSE addComponentsLoop(st, arg.items, 1)
       IN  /\ comps' = end.comps
           /\ components' = end.components
           /\ currentDVs' = end.currentDVs
           /\ last' = Called("addComponents", arg, RegisterRaises(arg) \/ end.err, None)
    /\ UNCHANGED <<cases, fuelcases, optProb>>

\* WeightProblem.setDesignVars(x)
SetDesignVars(x) ==
    /\ calls.setDesignVars < MaxSetCalls
    /\ calls' = [calls EXCEPT !.setDesignVars = @ + 1]
    /\ LET st == [comps |-> comps, cases |-> cases, currentDVs |-> currentDVs]
           end == setDesignVars(st, components, fuelcases, x)
       IN  /\ comps' = end.comps
           /\ cases' = end.cases
           /\ currentDVs' = end.currentDVs
    /\ last' = Called("setDesignVars", x, FALSE, None)
    /\ UNCHANGED <<components, fuelcases, optProb>>

\* WeightProblem.addConstraintsPyOpt(optProb)
AddConstraintsPyOpt ==
    /\ calls.addConstraintsPyOpt < MaxConCalls
    /\ calls' = [calls EXCEPT !.addConstraintsPyOpt = @ + 1]
    /\ LET emitted == addConstraintsLoop(cases, fuelcases, 1)
       IN  /\ optProb' = [optProb EXCEPT !.cons = @ \o emitted]
           /\ last' = Called("addConstraintsPyOpt", None, FALSE, emitted)
    /\ UNCHANGED <<cases, comps, components, fuelcases, currentDVs>>

\* WeightProblem.addVariablesPyOpt(optProb)
AddVariablesPyOpt ==
    /\ calls.addVariablesPyOpt < MaxVarCalls
    /\ calls' = [calls EXCEPT !.addVariablesPyOpt = @ + 1]
    /\ \E added \in addVariablesPyOpt(comps, cases, components, fuelcases) :
          /\ optProb' = [optProb EXCEPT !.vars = @ \o added]
          /\ last' = Called("addVariablesPyOpt", None, FALSE, added)
    /\ UNCHANGED <<cases, comps, components, fuelcases, currentDVs>>

\* WeightProblem.getVarNames(). Like _getComponentKeys it changes nothing
\* but the record of the last call; the first conjunct drops the repeated
\* queries.
GetVarNames ==
    /\ last.op # "getVarNames"
    /\ \E names \in getVarNames(comps, cases, components, fuelcases) :
          last' = Called("getVarNames", None, FALSE, names)
    /\ UNCHANGED <<cases, comps, components, fuelcases, currentDVs, optProb, calls>>

\* WeightProblem._getComponentKeys(include, exclude, includeType, excludeType).
\* The query changes nothing but the record of the last call, so the state
\* after two queries in a row is the state after the second alone: the first
\* conjunct only drops those repeated transitions.
GetComponentKeys(include, exclude, includeType, excludeType) ==
    /\ last.op # "_getComponentKeys"
    /\ last' = Called("_getComponentKeys",
                      [include |-> include, exclude |-> exclude,
                       includeType |-> includeType, excludeType |-> excludeType],
                      FALSE,
                      getComponentKeys(components, comps, include, exclude,
                                       includeType, excludeType))
    /\ UNCHANGED <<cases, comps, components, fuelcases, currentDVs, optProb, calls>>

-----------------------------------------------------------------------------
(* Inputs. *)

CaseNames == {"c1", "c2"}
Fractions == {<<DefaultFuelFraction, DefaultReserveFraction>>, <<5, 2>>}

Keys == possibleDVs \cup {"thrust"}
Values == {None, Some(5)}
OverrideNames == {None, Some("shared")}
Offsets == {DefaultOffset, 1}
Axes == {None, Some("x")}

\* the lists of length 1 and 2 over S
Lists(S) == {<<a>> : a \in S} \cup {<<a, b>> : a \in S, b \in S}

\* those that hold no item twice
DistinctLists(S) == {l \in Lists(S) : Len(l) = 1 \/ l[1] # l[2]}

RegisterArgs(S) ==
    {ListArg(l) : l \in Lists(S)} \cup {SingleArg(a) : a \in S}
        \cup {TupleArg(<<a>>) : a \in S} \cup {NoneArg}

CompLists == {ListArg(l) : l \in DistinctLists(CompIds)}
CaseLists == {ListArg(l) : l \in Lists(CaseIds)}

\* the local DV names the objects of the heap hold
OwnedNames ==
    UNION {DOMAIN cases[id].DVs : id \in CaseIds}
        \cup UNION {DOMAIN comps[id].DVs : id \in CompIds}

\* the name of a DV of another problem, wp2
ForeignName == "wp2_c1_fuelFraction"

\* names a shared vector may hold: this problem's, and one of another problem
VectorNames == {FQ(n) : n \in OwnedNames} \cup {ForeignName}

\* the dicts of one name
Vectors1 == {[k \in {a} |-> v] : a \in VectorNames, v \in {2, 6}}

\* the dicts of two names
Vectors2 ==
    {[k \in {p[1], p[2]} |-> IF k = p[1] THEN 2 ELSE 6] :
        p \in {q \in VectorNames \X VectorNames : q[1] # q[2]}}

CompNames == {"A", "Z"}
CompTypes == {"wing", "fuel"}
\* None, each bare string, the empty list and the lists of two strings
Filters(S) ==
    {NoFilter} \cup {StrFilter(a) : a \in S}
        \cup {ListFilter(l) : l \in {<< >>} \cup {<<a, "C">> : a \in S \ {"C"}}}

AddDVStep(ids, keys, values, names, offsets, axes, flags) ==
    \E id \in ids, key \in keys, value \in values, name \in names,
       offset \in offsets, axis \in axes, addToPyOpt \in flags :
        AddDV(id, key, value, name, offset, axis, addToPyOpt)

AddFuelCasesStep(args) == \E arg \in args : AddFuelCases(arg)

AddComponentsStep(args) == \E arg \in args : AddComponents(arg)

SetDesignVarsStep(vectors) == \E x \in vectors : SetDesignVars(x)

NameFilters == Filters(CompNames)
TypeFilters == {NoFilter} \cup {StrFilter(a) : a \in CompTypes}
                   \cup {ListFilter(<<"wing", "fuel">>)}

GetComponentKeysStep ==
    \E include \in NameFilters, exclude \in NameFilters,
       includeType \in TypeFilters, excludeType \in TypeFilters :
        GetComponentKeys(include, exclude, includeType, excludeType)

Init ==
    \E names \in [CaseIds -> CaseNames], fracs \in [CaseIds -> Fractions] :
        InitWith(names, fracs)

Next ==
    \/ AddDVStep(CaseIds, Keys, Values, OverrideNames, Offsets, Axes, BOOLEAN)
    \/ AddFuelCasesStep(RegisterArgs(CaseIds))
    \/ AddComponentsStep(RegisterArgs(CompIds))
    \/ SetDesignVarsStep({EmptyDict} \cup Vectors1 \cup Vectors2)
    \/ AddConstraintsPyOpt
    \/ AddVariablesPyOpt
    \/ GetVarNames
    \/ GetComponentKeysStep

\* every call, with every input
Spec == Init /\ [][Next]_vars

DefaultFractions == [id \in CaseIds |-> <<DefaultFuelFraction, DefaultReserveFraction>>]

\* two fuel cases, c1 and c2, with the default fractions
InitDV ==
    \E names \in [CaseIds -> CaseNames] :
        /\ names["case1"] = "c1"
        /\ names["case2"] = "c2"
        /\ InitWith(names, DefaultFractions)

NextDV ==
    \/ AddDVStep(CaseIds, Keys, Values, OverrideNames, Offsets, {None}, {TRUE})
    \/ AddFuelCasesStep(CaseLists)
    \/ SetDesignVarsStep(Vectors1)

\* design variables of fuel cases: registration, the cache, value vectors
SpecDV == InitDV /\ [][NextDV]_vars

NextReg ==
    \/ AddDVStep(CaseIds, possibleDVs, {None}, OverrideNames, {1}, {None}, {TRUE})
    \/ AddFuelCasesStep(CaseLists)
    \/ AddComponentsStep({ListArg(<<c>>) : c \in {"compA", "compA2"}})
    \/ SetDesignVarsStep({EmptyDict} \cup Vectors1 \cup Vectors2)

\* the registry of a problem with components and fuel cases
SpecReg == InitDV /\ [][NextReg]_vars

NextSet ==
    \/ AddDVStep({"case1"}, possibleDVs, {None}, OverrideNames, {1}, {None}, {TRUE})
    \/ AddFuelCasesStep({ListArg(<<"case1">>)})
    \/ AddComponentsStep({ListArg(<<"compA">>)})
    \/ SetDesignVarsStep({EmptyDict} \cup {x \in Vectors2 : ForeignName \in DOMAIN x})

\* vectors shared with other problems, applied to one fuel case and one
\* component: each holds a name of another problem
SpecSet == InitDV /\ [][NextSet]_vars

NextKeys ==
    \/ AddComponentsStep(CompLists)
    \/ GetComponentKeysStep

\* selection of component keys over the registered components
SpecKeys == InitDV /\ [][NextKeys]_vars

\* case1 is c1 with the default fractions; case2 has the same name or
\* another, and either pair of fractions
InitCon ==
    \E names \in [CaseIds -> CaseNames], fracs \in [CaseIds -> Fractions] :
        /\ names["case1"] = "c1"
        /\ fracs["case1"] = DefaultFractions["case1"]
        /\ InitWith(names, fracs)

NextCon ==
    \/ AddDVStep(CaseIds, possibleDVs, {None}, {None}, {DefaultOffset},
                 {None}, BOOLEAN)
    \/ AddFuelCasesStep(CaseLists)
    \/ AddConstraintsPyOpt

\* the linear constraints of the fuel cases
SpecCon == InitCon /\ [][NextCon]_vars

NextAdd ==
    AddDVStep({"case1"}, Keys, Values, OverrideNames, Offsets, Axes, BOOLEAN)

\* FuelCase.addDV alone, on one case, with every argument
SpecAdd == InitDV /\ [][NextAdd]_vars

NextArgs ==
    \/ AddDVStep({"case1"}, {"fuelFraction"}, {None}, {None}, {DefaultOffset},
                 {None}, {TRUE})
    \/ AddFuelCasesStep(RegisterArgs(CaseIds) \cup {ObjectArg})
    \/ AddComponentsStep(RegisterArgs({"compA", "compB"}) \cup {ObjectArg})

\* registration with every shape of argument
SpecArgs == InitDV /\ [][NextArgs]_vars

NextComp ==
    \/ AddComponentsStep({ListArg(l) : l \in Lists({"compA", "compB"})})
    \/ AddFuelCasesStep({ListArg(<<"case1">>)})
    \/ AddDVStep({"case1"}, {"fuelFraction"}, {None}, {None}, {DefaultOffset},
                 {None}, {TRUE})
    \/ SetDesignVarsStep(Vectors1)

\* components registered once and again, between other calls
SpecComp == InitDV /\ [][NextComp]_vars

NextNames ==
    \/ AddDVStep(CaseIds, {"fuelFraction"}, {None}, OverrideNames, {DefaultOffset},
                 {None}, {TRUE})
    \/ AddFuelCasesStep({ListArg(<<c>>) : c \in CaseIds})
    \/ AddComponentsStep({ListArg(<<c>>) : c \in {"compA", "compB"}})
    \/ GetVarNames

\* the names listed for the components and cases registered so far
SpecNames == InitDV /\ [][NextNames]_vars

NextVar ==
    \/ AddDVStep(CaseIds, possibleDVs, {None}, OverrideNames, {DefaultOffset},
                 {None}, BOOLEAN)
    \/ AddFuelCasesStep(CaseLists)
    \/ AddComponentsStep({ListArg(<<c>>) : c \in {"compA", "compB"}})
    \/ AddVariablesPyOpt

\* the variables handed to the optimizer
SpecVar == InitDV /\ [][NextVar]_vars

NextWrt ==
    \/ AddDVStep(CaseIds, possibleDVs, {None}, OverrideNames, {DefaultOffset},
                 Axes, {TRUE})
    \/ AddFuelCasesStep(CaseLists)
    \/ AddVariablesPyOpt
    \/ AddConstraintsPyOpt

\* the variables and the constraints over them handed to the optimizer
SpecWrt == InitDV /\ [][NextWrt]_vars

-----------------------------------------------------------------------------
(* Claims. *)

\* the fuel case objects the problem holds
Registered == {fuelcases[i] : i \in 1..Len(fuelcases)}

\* the call just made was op and did not raise
Did(op) == last.op = op /\ ~last.err

\* C1: round trip. After P.setDesignVars({P.name+'_'+d: v2}), every fuel case
\* registered in P that holds a DV under the local name d (key k, offset o) has
\* attribute k = v2 + o, the DV's stored value = v2 and
\* currentDVs[P.name+'_'+d] = v2.
C1_RoundTrip ==
    (Did("setDesignVars") /\ Cardinality(DOMAIN last.arg) = 1) =>
        \A id \in Registered : \A d \in DOMAIN cases[id].DVs :
            FQ(d) \in DOMAIN last.arg =>
                LET dv == cases[id].DVs[d]
                    v2 == last.arg[FQ(d)]
                IN  /\ cases[id][dv.key] = v2 + dv.offset
                    /\ dv.value = v2
                    /\ FQ(d) \in DOMAIN currentDVs
                    /\ currentDVs[FQ(d)] = v2

\* C3: the cache stays in sync. For every DV d of a registered fuel case whose
\* fully-qualified name is a key of currentDVs, the cached value equals the
\* DV's stored value.
C3_CacheInSync ==
    \A id \in Registered : \A d \in DOMAIN cases[id].DVs :
        FQ(d) \in DOMAIN currentDVs => currentDVs[FQ(d)] = cases[id].DVs[d].value

\* C4 as claimed: after an accepted FuelCase.addDV on a case the problem
\* holds, the DV's entry is in the case's DVs map and in the problem's
\* currentDVs cache, with the DV's value.
C4_AddDVWritesCache ==
    (Did("addDV") /\ last.arg.id \in Registered) =>
        LET case == cases[last.arg.id]
            d == case.DVNames[last.arg.key]
        IN  /\ d \in DOMAIN case.DVs
            /\ FQ(d) \in DOMAIN currentDVs
            /\ currentDVs[FQ(d)] = case.DVs[d].value

\* the step is a call of the counted operation op
IsCall(op) == calls'[op] = calls[op] + 1

\* the DVs reachable through the problem: <<owner object, local name>>
ReachableDVs ==
    {r \in Registered \X OwnedNames : r[2] \in DOMAIN cases[r[1]].DVs}
        \cup {r \in {components[n] : n \in DOMAIN components} \X OwnedNames :
                 r[2] \in DOMAIN comps[r[1]].DVs}

\* C2: every key of currentDVs corresponds to exactly one DesignVariable
\* reachable through the problem's components or fuelcases.
C2_KeysNameOneDV ==
    \A k \in DOMAIN currentDVs :
        Cardinality({r \in ReachableDVs : FQ(r[2]) = k}) = 1

\* the fully-qualified names of the DVs reachable through the problem
OwnedFQ == {FQ(r[2]) : r \in ReachableDVs}

\* C5: setDesignVars(x) changes only what x names. Every DV value, every
\* owning-entity attribute and every currentDVs entry whose fully-qualified
\* name is not a key of x is left unchanged, no key is added to currentDVs for
\* a name the problem does not own, no error is raised, and a vector holding
\* only unrelated names leaves the whole state unchanged.
C5_SetChangesOnlyNamed ==
    [][IsCall("setDesignVars") =>
        LET x == last'.arg
            named == DOMAIN x
        IN  /\ ~last'.err
            /\ components' = components /\ fuelcases' = fuelcases
            /\ \A id \in CaseIds :
                  LET old == cases[id]
                      new == cases'[id]
                  IN  /\ new.name = old.name
                      /\ new.DVNames = old.DVNames
                      /\ DOMAIN new.DVs = DOMAIN old.DVs
                      /\ \A d \in DOMAIN old.DVs :
                            FQ(d) \notin named => new.DVs[d] = old.DVs[d]
                      /\ \A k \in possibleDVs :
                            (k \notin DOMAIN old.DVNames
                                \/ FQ(old.DVNames[k]) \notin named)
                            => new[k] = old[k]
            /\ \A id \in CompIds :
                  /\ DOMAIN comps'[id].DVs = DOMAIN comps[id].DVs
                  /\ \A d \in DOMAIN comps[id].DVs :
                        FQ(d) \notin named => comps'[id].DVs[d] = comps[id].DVs[d]
            /\ \A k \in DOMAIN currentDVs :
                  /\ k \in DOMAIN currentDVs'
                  /\ k \notin named => currentDVs'[k] = currentDVs[k]
            /\ \A k \in (DOMAIN currentDVs') \ (DOMAIN currentDVs) :
                  k \in named /\ k \in OwnedFQ
            /\ named \cap OwnedFQ = {} =>
                  /\ cases' = cases /\ comps' = comps /\ currentDVs' = currentDVs
    ]_vars

\* C5 witness: a vector naming one DV of a registered fuel case and one name
\* of another problem was applied: the named DV took its value while the
\* same case holds another DV the vector does not name.
C5_Witness ==
    /\ Did("setDesignVars")
    /\ \E id \in Registered : \E d \in DOMAIN cases[id].DVs, e \in DOMAIN cases[id].DVs :
          /\ FQ(d) \in DOMAIN last.arg
          /\ cases[id].DVs[d].value = last.arg[FQ(d)]
          /\ cases[id][cases[id].DVs[d].key] = last.arg[FQ(d)] + cases[id].DVs[d].offset
          /\ FQ(e) \notin DOMAIN last.arg
    /\ \E k \in DOMAIN last.arg : k \notin OwnedFQ

\* the set a filter argument stands for: a bare string is the one-element
\* collection holding it
AsSet(filter) ==
    IF filter.kind = "str" THEN {filter.val}
    ELSE {filter.val[i] : i \in 1..Len(filter.val)}

\* C6: _getComponentKeys(include, exclude, includeType, excludeType) returns
\* exactly the registered names, narrowed to those whose compType is in
\* includeType (if given), intersected with include (if given), minus exclude
\* (if given), minus those whose compType is in excludeType (if given); a bare
\* string is the one-element collection, unregistered names are ignored and
\* the result is a subset of the registered names.
C6_KeysAreFilteredNames ==
    Did("_getComponentKeys") =>
        LET a == last.arg
            names == DOMAIN components
            typeOf(n) == comps[components[n]].compType
            s1 == IF a.includeType.kind = "none" THEN names
                  ELSE {n \in names : typeOf(n) \in AsSet(a.includeType)}
            s2 == IF a.include.kind = "none" THEN s1 ELSE s1 \cap AsSet(a.include)
            s3 == IF a.exclude.kind = "none" THEN s2 ELSE s2 \ AsSet(a.exclude)
            s4 == IF a.excludeType.kind = "none" THEN s3
                  ELSE {n \in s3 : typeOf(n) \notin AsSet(a.excludeType)}
        IN  /\ last.ret = s4
            /\ last.ret \subseteq names

\* C6 witness: with A (wing), B (wing) and C (fuel) registered, the query
\* includeType="wing", exclude="A" returned exactly {B}.
C6_Witness ==
    /\ Did("_getComponentKeys")
    /\ DOMAIN components = {"A", "B", "C"}
    /\ components["A"] = "compA"
    /\ last.arg.includeType = StrFilter("wing")
    /\ last.arg.exclude = StrFilter("A")
    /\ last.arg.include = NoFilter
    /\ last.arg.excludeType = NoFilter
    /\ last.ret = {"B"}

\* the fuel case holds a DV for the fraction key
IsDV(id, key) == key \in DOMAIN cases[id].DVNames

\* the fuel case holds a DV
HasDV(id) == DOMAIN cases[id].DVNames # {}

\* the entries of fuelcases whose case holds a DV, in order of registration:
\* the j-th constraint of one call belongs to the j-th of them
EntriesWithDV == SelectSeq(fuelcases, HasDV)

\* {problem}_{case}_{key}: the variable of a fraction of a fuel case
VarOf(id, key) == ProblemName \o "_" \o cases[id].name \o "_" \o key

\* {problem}_{case}_fuelcase
ConOf(id) == ProblemName \o "_" \o cases[id].name \o "_fuelcase"

\* the constraint has coefficient 1 on each variable of vs and on no other
UnitOn(con, vs) ==
    /\ {con.wrt[i] : i \in 1..Len(con.wrt)} = vs
    /\ Len(con.wrt) = Cardinality(vs)
    /\ DOMAIN con.jac = vs
    /\ \A v \in vs : con.jac[v] = << <<1>> >>

\* C7: for a fuel case with both fuelFraction and reserveFraction registered
\* as DVs, addConstraintsPyOpt emits exactly one linear constraint for the
\* case (one per entry of fuelcases), named {problem}_{case}_fuelcase, with
\* lower bound 0, upper bound 1 and coefficient 1 on each of the two variables
\* and on no other.
C7_BothDVConstraint ==
    Did("addConstraintsPyOpt") =>
        /\ Len(last.ret) = Len(EntriesWithDV)
        /\ \A j \in 1..Len(EntriesWithDV) :
              LET id == EntriesWithDV[j]
              IN  (IsDV(id, "fuelFraction") /\ IsDV(id, "reserveFraction")) =>
                      /\ j <= Len(last.ret)
                      /\ last.ret[j].name = ConOf(id)
                      /\ last.ret[j].linear
                      /\ last.ret[j].lower = 0
                      /\ last.ret[j].upper = One
                      /\ UnitOn(last.ret[j], {VarOf(id, "fuelFraction"),
                                              VarOf(id, "reserveFraction")})

\* C7 witness: a case with both fractions as DVs and a fuel fraction other
\* than the default got its constraint over both variables, bounded by 1.
C7_Witness ==
    /\ Did("addConstraintsPyOpt")
    /\ \E j \in 1..Len(EntriesWithDV) :
          LET id == EntriesWithDV[j]
          IN  /\ IsDV(id, "fuelFraction") /\ IsDV(id, "reserveFraction")
              /\ cases[id].fuelFraction # DefaultFuelFraction
              /\ j <= Len(last.ret)
              /\ Len(last.ret[j].wrt) = 2
              /\ last.ret[j].upper = One

\* C8: for a fuel case where exactly one of the two fractions is a DV, the
\* constraint references only that DV's variable with coefficient 1, has lower
\* bound 0 and upper bound 1 minus the current value of the other fraction of
\* the case: 1 - fuelFraction when only reserveFraction is a DV,
\* 1 - reserveFraction when only fuelFraction is a DV.
C8_OneDVConstraint ==
    Did("addConstraintsPyOpt") =>
        \A j \in 1..Len(EntriesWithDV) :
            LET id == EntriesWithDV[j]
                onlyReserve == IsDV(id, "reserveFraction") /\ ~IsDV(id, "fuelFraction")
                onlyFuel == IsDV(id, "fuelFraction") /\ ~IsDV(id, "reserveFraction")
            IN  /\ onlyReserve =>
                      /\ j <= Len(last.ret)
                      /\ last.ret[j].lower = 0
                      /\ last.ret[j].upper = One - cases[id].fuelFraction
                      /\ UnitOn(last.ret[j], {VarOf(id, "reserveFraction")})
                /\ onlyFuel =>
                      /\ j <= Len(last.ret)
                      /\ last.ret[j].lower = 0
                      /\ last.ret[j].upper = One - cases[id].reserveFraction
                      /\ UnitOn(last.ret[j], {VarOf(id, "fuelFraction")})

\* C8 witness: one call met a case with fuelFraction 0.5 and only the reserve
\* DV, bounded by 0.5, and a case with only the fuel DV.
C8_Witness ==
    /\ Did("addConstraintsPyOpt")
    /\ \E j \in 1..Len(EntriesWithDV), k \in 1..Len(EntriesWithDV) :
          /\ IsDV(EntriesWithDV[j], "reserveFraction")
          /\ ~IsDV(EntriesWithDV[j], "fuelFraction")
          /\ cases[EntriesWithDV[j]].fuelFraction = 5
          /\ cases[EntriesWithDV[j]].reserveFraction = 2
          /\ j <= Len(last.ret)
          /\ last.ret[j].upper = 5
          /\ IsDV(EntriesWithDV[k], "fuelFraction")
          /\ ~IsDV(EntriesWithDV[k], "reserveFraction")
          /\ k <= Len(last.ret)
          /\ last.ret[k].wrt = <<VarOf(EntriesWithDV[k], "fuelFraction")>>

\* the case holds a DV for the fraction key that is added to the optimizer
IsVisibleDV(id, key) ==
    IsDV(id, key) /\ cases[id].DVs[cases[id].DVNames[key]].addToPyOpt

\* the case holds a DV that is added to the optimizer
HasVisibleDV(id) == \E key \in possibleDVs : IsVisibleDV(id, key)

\* the variables of the fractions of keys, fuelFraction first
VarSeq(id, keys) ==
    (IF "fuelFraction" \in keys THEN <<VarOf(id, "fuelFraction")>> ELSE << >>)
        \o (IF "reserveFraction" \in keys THEN <<VarOf(id, "reserveFraction")>> ELSE << >>)

\* C9 as claimed: the constraint shape of a fuel case is decided by which of
\* its fractions are optimizer-visible DVs: a fraction whose DV has addToPyOpt
\* false never appears as a variable of the constraint, and a case whose DVs
\* are all non-visible gets no constraint.
C9_VisibleDVsDecide ==
    Did("addConstraintsPyOpt") =>
        LET visible == SelectSeq(fuelcases, HasVisibleDV)
        IN  /\ Len(last.ret) = Len(visible)
            /\ \A j \in 1..Len(visible) :
                  j <= Len(last.ret) =>
                      last.ret[j].wrt =
                          VarSeq(visible[j],
                                 {key \in possibleDVs : IsVisibleDV(visible[j], key)})

\* C9 amended: the constraint shape of a fuel case is decided by which of its
\* fractions are registered as DVs, whatever their addToPyOpt flag: a case
\* holding a DV gets one constraint over the variables of exactly its
\* registered fractions, also those with addToPyOpt false, and only a case
\* holding no DV gets none.
C9_RegisteredDVsDecide ==
    Did("addConstraintsPyOpt") =>
        /\ Len(last.ret) = Len(EntriesWithDV)
        /\ \A j \in 1..Len(EntriesWithDV) :
              j <= Len(last.ret) =>
                  /\ last.ret[j].wrt =
                        VarSeq(EntriesWithDV[j],
                               {key \in possibleDVs : IsDV(EntriesWithDV[j], key)})
                  /\ DOMAIN last.ret[j].jac =
                        {VarOf(EntriesWithDV[j], key) :
                            key \in {k \in possibleDVs : IsDV(EntriesWithDV[j], k)}}

\* C9 witness: a case whose two DVs both have addToPyOpt false got a
\* constraint over the variables of both fractions.
C9_Witness ==
    /\ Did("addConstraintsPyOpt")
    /\ \E j \in 1..Len(EntriesWithDV) :
          LET id == EntriesWithDV[j]
          IN  /\ IsDV(id, "fuelFraction") /\ IsDV(id, "reserveFraction")
              /\ ~HasVisibleDV(id)
              /\ j <= Len(last.ret)
              /\ last.ret[j].wrt = <<VarOf(id, "fuelFraction"),
                                     VarOf(id, "reserveFraction")>>

\* C10: one call of addConstraintsPyOpt emits, for each entry of fuelcases, no
\* constraint when neither fraction of the case is a DV and exactly one
\* constraint, under the name of that case, otherwise; it hands them to the
\* optimizer in the order of the entries and changes no state of the problem
\* or of any fuel case.
C10_OnePerEntryNoStateChange ==
    [][IsCall("addConstraintsPyOpt") =>
        /\ ~last'.err
        /\ UNCHANGED <<cases, comps, components, fuelcases, currentDVs>>
        /\ Len(last'.ret) =
              Cardinality({i \in 1..Len(fuelcases) :
                              \E key \in possibleDVs : IsDV(fuelcases[i], key)})
        /\ \A j \in 1..Len(last'.ret) :
              /\ j <= Len(EntriesWithDV)
              /\ last'.ret[j].name = ConOf(EntriesWithDV[j])
        /\ optProb'.cons = optProb.cons \o last'.ret
    ]_vars

\* C10 witness: a call over two entries, the first without a DV and the
\* second with one, emitted one constraint, that of the second entry.
C10_Witness ==
    /\ Did("addConstraintsPyOpt")
    /\ Len(fuelcases) = 2
    /\ ~HasDV(fuelcases[1])
    /\ HasDV(fuelcases[2])
    /\ Len(last.ret) = 1
    /\ last.ret[1].name = ConOf(fuelcases[2])
    /\ optProb.cons = last.ret

\* the addToPyOpt flag of a reachable DV <<owner object, local name>>
FlagOf(r) ==
    IF r[1] \in CaseIds THEN cases[r[1]].DVs[r[2]].addToPyOpt
    ELSE comps[r[1]].DVs[r[2]].addToPyOpt

\* C11: addVariablesPyOpt calls addVar for every DV of every registered
\* component and fuel case whose addToPyOpt flag is true and for no other
\* name, and passes no fully-qualified name to addVar more than once in one
\* call, also when a DV is reachable through two registration paths.
C11_ExportsEachVisibleOnce ==
    Did("addVariablesPyOpt") =>
        /\ \A r \in ReachableDVs :
              FlagOf(r) => \E i \in 1..Len(last.ret) : last.ret[i].name = FQ(r[2])
        /\ \A i \in 1..Len(last.ret) :
              \E r \in ReachableDVs : FlagOf(r) /\ last.ret[i].name = FQ(r[2])
        /\ \A i, j \in 1..Len(last.ret) :
              i # j => last.ret[i].name # last.ret[j].name

\* C12: FuelCase.addDV with a key outside {fuelFraction, reserveFraction}
\* raises an error and leaves the case's DVs, DVNames and fraction attributes
\* exactly as they were before the call.
C12_WhitelistRejection ==
    [][(IsCall("addDV") /\ last'.arg.key \notin {"fuelFraction", "reserveFraction"}) =>
        /\ last'.err
        /\ cases'[last'.arg.id].DVs = cases[last'.arg.id].DVs
        /\ cases'[last'.arg.id].DVNames = cases[last'.arg.id].DVNames
        /\ cases'[last'.arg.id].fuelFraction = cases[last'.arg.id].fuelFraction
        /\ cases'[last'.arg.id].reserveFraction = cases[last'.arg.id].reserveFraction
        /\ cases' = cases
    ]_vars

\* C12 witness: addDV('thrust') was rejected on a case that holds a DV from
\* an earlier, accepted call.
C12_Witness ==
    /\ last.op = "addDV"
    /\ last.err
    /\ last.arg.key = "thrust"
    /\ "fuelFraction" \in DOMAIN cases[last.arg.id].DVNames
    /\ "thrust" \notin DOMAIN cases[last.arg.id].DVNames
    /\ Cardinality(DOMAIN cases[last.arg.id].DVs) = 1

\* the step is a call of the registration operation op
IsRegistration(op) == last'.op = op /\ vars' # vars

\* C13: addComponents and addFuelCases accept a single component / fuel case
\* passed directly (not wrapped in a list) and register it with the same
\* resulting state as passing the one-element list holding it.
C13_SingleItemAccepted ==
    [][/\ (IsRegistration("addFuelCases") /\ last'.arg.kind = "single") =>
            LET st == [cases |-> cases, fuelcases |-> fuelcases,
                       currentDVs |-> currentDVs, err |-> FALSE]
                end == addFuelCasesLoop(st, last'.arg.items, 1)
            IN  /\ ~last'.err
                /\ fuelcases' = end.fuelcases
                /\ currentDVs' = end.currentDVs
       /\ (IsRegistration("addComponents") /\ last'.arg.kind = "single") =>
            LET st == [comps |-> comps, components |-> components,
                       currentDVs |-> currentDVs, err |-> FALSE]
                end == addComponentsLoop(st, last'.arg.items, 1)
            IN  /\ ~last'.err
                /\ components' = end.components
                /\ currentDVs' = end.currentDVs
    ]_vars

\* C14: a registration call (addComponents or addFuelCases) whose argument is
\* neither a single entity nor a sequence of entities fails with an error and
\* leaves components, fuelcases and currentDVs unchanged.
C14_BadArgumentRejected ==
    [][((IsRegistration("addFuelCases") \/ IsRegistration("addComponents"))
            /\ last'.arg.kind \in {"none", "object"}) =>
        /\ last'.err
        /\ components' = components
        /\ fuelcases' = fuelcases
        /\ currentDVs' = currentDVs
    ]_vars

\* the component object is registered under its name
IsRegisteredComp(id) ==
    comps[id].name \in DOMAIN components /\ components[comps[id].name] = id

C16_AppendOnlyInCallOrder ==
    [][/\ Len(fuelcases') >= Len(fuelcases)
       /\ SubSeq(fuelcases', 1, Len(fuelcases)) = fuelcases
       /\ IF IsRegistration("addFuelCases") /\ ~last'.err
          THEN fuelcases' = fuelcases \o last'.arg.items
          ELSE fuelcases' = fuelcases
    ]_vars

\* the DVs of a case whose key is the given one (fuelCaseDV.key)
DVsOfKey(case, key) == {n \in DOMAIN case.DVs : case.DVs[n].key = key}

\* C17: each fuel case holds at most one DV per local key, also after the
\* same key was registered twice with different override names or axes, and
\* the set of DVs names equals the set of DVNames values.
C17_OneDVPerKey ==
    \A id \in DOMAIN cases :
        /\ \A key \in possibleDVs : Cardinality(DVsOfKey(cases[id], key)) <= 1
        /\ DOMAIN cases[id].DVs =
               {cases[id].DVNames[k] : k \in DOMAIN cases[id].DVNames}

\* the fully-qualified names of the DVs of the registered components
ComponentFQ ==
    UNION {{FQ(n) : n \in DOMAIN comps[components[c]].DVs} : c \in DOMAIN components}

RECURSIVE GroupedByCase(_, _)
\* names is, for each entry of fuelcases from the i-th on, in order, the
\* fully-qualified names of all DVs of that case
GroupedByCase(names, i) ==
    IF i > Len(fuelcases) THEN names = << >>
    ELSE LET own == {FQ(n) : n \in DOMAIN cases[fuelcases[i]].DVs}
             n == Cardinality(own)
         IN  /\ Len(names) >= n
             /\ {names[j] : j \in 1..n} = own
             /\ GroupedByCase(SubSeq(names, n + 1, Len(names)), i + 1)

\* C18: getVarNames returns every DV name of every registered component and
\* fuel case, prefixed with the problem name: first the names of all component
\* DVs, then the names of the fuel-case DVs, grouped by case in the order the
\* cases were registered.
C18_ComponentsThenCasesInOrder ==
    Did("getVarNames") =>
        LET n == Cardinality(ComponentFQ)
        IN  /\ Len(last.ret) >= n
            /\ {last.ret[i] : i \in 1..n} = ComponentFQ
            /\ GroupedByCase(SubSeq(last.ret, n + 1, Len(last.ret)), 1)

\* C18 witness: the names of a component and of two cases with a DV each, the
\* case registered first being the second by id and holding an override name.
C18_Witness ==
    /\ Did("getVarNames")
    /\ DOMAIN components = {"A"}
    /\ fuelcases = <<"case2", "case1">>
    /\ DOMAIN cases["case2"].DVs = {"shared"}
    /\ DOMAIN cases["case1"].DVs = {"c1_fuelFraction"}
    /\ last.ret = <<FQ("A_span"), FQ("shared"), FQ("c1_fuelFraction")>>

\* the fully-qualified names under which addVariablesPyOpt exports the DVs of
\* a case
ExportedFQ(case) ==
    {FQ(n) : n \in {d \in DOMAIN case.DVs : case.DVs[d].addToPyOpt}}

\* C19: constraint well-formedness. Every variable name a constraint emitted
\* by addConstraintsPyOpt refers to, in wrt and in jac, is the fully-qualified
\* name under which its fuel case's DV is registered and exported by
\* addVariablesPyOpt, also when the DV has an override name or an axis suffix.
C19_ConstraintNamesAreExported ==
    Did("addConstraintsPyOpt") =>
        \A j \in 1..Len(last.ret) :
            LET case == cases[EntriesWithDV[j]]
                con == last.ret[j]
            IN  /\ \A i \in 1..Len(con.wrt) : con.wrt[i] \in ExportedFQ(case)
                /\ DOMAIN con.jac \subseteq ExportedFQ(case)

\* C20: attribute/DV consistency. In every state reached by addDV and
\* setDesignVars calls, for every key k in a fuel case's DVNames the case's
\* attribute k equals the stored value of the DV named DVNames[k] plus that
\* DV's offset, also directly after addDV with an explicit value or a
\* non-zero offset.
C20_AttributeIsValuePlusOffset ==
    \A id \in DOMAIN cases :
        \A k \in DOMAIN cases[id].DVNames :
            LET dv == cases[id].DVs[cases[id].DVNames[k]]
            IN  cases[id][k] = dv.value + dv.offset

====
